---- MODULE Spec2Model ----
(***************************************************************************)
(* Model of database/gdb/gdb_base.go: the statement building, batch        *)
(* execution, link routing and result materialisation of dbBase.           *)
(*                                                                         *)
(* A Go string is modelled as a sequence of tokens (each token a TLA+      *)
(* string), so that fmt.Sprintf / strings.Join are concatenations and the  *)
(* placeholders and quoted columns of a statement can be counted.          *)
(* Each caller (goroutine) p runs one operation; the driver and the router *)
(* are the environment: their answers are chosen nondeterministically.     *)
(***************************************************************************)
EXTENDS Integers, Sequences, FiniteSets, TLC

\* ------------------------------------------------------------------ bounds
\* Largest number of rows of a batch list.
MaxRows == 3
\* Largest explicit <batch> argument a caller passes.
MaxBatch == 2
\* Largest number of rows a driver cursor delivers.
MaxCursorRows == 2

\* ----------------------------------------------------------- program constants
\* gINSERT_OPTION_*: the values documented on doInsert.
gINSERT_OPTION_DEFAULT == 0
gINSERT_OPTION_REPLACE == 1
gINSERT_OPTION_SAVE == 2
gINSERT_OPTION_IGNORE == 3
\* gDEFAULT_BATCH_NUM: the default chunk size of doBatchInsert.
gDEFAULT_BATCH_NUM == 10

Options ==
    {gINSERT_OPTION_DEFAULT, gINSERT_OPTION_REPLACE, gINSERT_OPTION_SAVE, gINSERT_OPTION_IGNORE}

\* ------------------------------------------------------------- value domains
\* The callers (goroutines) that may use one dbBase.
Procs == {1, 2}

\* Column names of the data rows and of the cursors.
ColNames == {"a", "b"}

\* The key sets a data row (a Map) may have.
KeySets == {{}, {"a"}, {"a", "b"}}

\* The scalar stored by row i under column k; all values are distinct.
Val(i, k) == <<i, k>>
\* Go's nil interface value: what listMap[i][k] yields for a missing key.
NilValue == <<>>

\* The Map of row i with key set ks.
RowOf(i, ks) == [k \in ks |-> Val(i, k)]

\* What a Go map lookup m[k] yields.
MapGet(m, k) == IF k \in DOMAIN m THEN m[k] ELSE NilValue

\* All orders in which "for k := range m" may visit the keys of a map.
RangeOrders(S) ==
    {s \in [1..Cardinality(S) -> S] : \A i, j \in 1..Cardinality(S) : s[i] = s[j] => i = j}

\* Links: no link, the router's master and slave links, a caller supplied link.
NilLink == "nil"
MasterLink == "master"
SlaveLink == "slave"
TxLink == "tx"
Links == {NilLink, TxLink}

\* Errors are records; NoErr is Go's nil error.
NoErr == [msg |-> "nil"]
Err(m) == [msg |-> m]
ErrNoRows == Err("sql: no rows in result set")
ErrDataEmpty == Err("data cannot be empty")
ErrListEmpty == Err("data list cannot be empty")
ErrUnsupportedData == Err("unsupported data type")
ErrUnsupportedList == Err("unsupported list type")
ErrDriver == Err("driver error")
ErrRowsAffected == Err("rows affected error")
ErrScan == Err("scan error")
ErrColumnTypes == Err("column types error")
ErrRouter(want) == Err("no link: " \o want)

\* sql.Result values: nil, a driver's native result, the batchSqlResult.
NilResult == [kind |-> "nil", rows |-> 0, raOk |-> FALSE]
NativeResult(n, raOk) == [kind |-> "native", rows |-> n, raOk |-> raOk]
BatchResult(n, last) == [kind |-> "batch", rowsAffected |-> n, lastResult |-> last]

\* The rows-affected values a driver reports for one Exec.
RowsAffectedVals == {1, 2}

\* The answers of link.Exec: a result whose RowsAffected() succeeds, a result
\* whose RowsAffected() fails, or an error (with a nil result).
ExecOutcomes ==
    {[result |-> NativeResult(n, TRUE), err |-> NoErr] : n \in RowsAffectedVals}
        \cup {[result |-> NativeResult(0, FALSE), err |-> NoErr],
              [result |-> NilResult, err |-> ErrDriver]}

\* ----------------------------------------------------------------- strings
RECURSIVE Join(_, _)
\* strings.Join(elems, sep)
Join(elems, sep) ==
    IF Len(elems) = 0 THEN <<>>
    ELSE IF Len(elems) = 1 THEN elems[1]
    ELSE elems[1] \o sep \o Join(Tail(elems), sep)

RECURSIVE CountTok(_, _)
\* The number of tokens of s that equal t.
CountTok(s, t) ==
    IF Len(s) = 0 THEN 0
    ELSE (IF Head(s) = t THEN 1 ELSE 0) + CountTok(Tail(s), t)

\* getChars(): the quote characters of the database.
charL == "\""
charR == "\""

\* quoteWord(s) for a bare identifier.
quoteWord(s) == <<charL, s, charR>>

\* handleTableName(table) for a single bare table name and an empty prefix.
handleTableName(table) == <<charL, table, charR>>

\* getInsertOperationByOption(option)
getInsertOperationByOption(option) ==
    IF option = gINSERT_OPTION_REPLACE THEN <<"REPLACE">>
    ELSE IF option = gINSERT_OPTION_IGNORE THEN <<"INSERT IGNORE">>
    ELSE <<"INSERT">>

\* formatQuery(query, args): scalar arguments leave the statement as it is
\* (every argument of this model is a scalar).
formatQuery(query, args) == [query |-> query, args |-> args]

\* handleSqlBeforeExec(query): the driver hook of the base implementation.
handleSqlBeforeExec(query) == query

\* formatError(err, query, args): nil stays nil, an error is wrapped with the
\* statement and its arguments.
formatError(err, query, args) ==
    IF err = NoErr THEN NoErr ELSE [msg |-> err.msg, sql |-> query, args |-> args]

\* The table every operation of the model works on.
Table == "t"

\* ------------------------------------------------------- statement building
\* doInsert: fields = append(fields, charL+k+charR) over "range dataMap".
InsertFields(order) == [i \in 1..Len(order) |-> <<charL, order[i], charR>>]

\* doInsert: values = append(values, "?") over "range dataMap".
InsertHolders(order) == [i \in 1..Len(order) |-> <<"?">>]

\* A variant of InsertParams that appends the values in the reverse of the
\* order of the fields.
InsertParamsReversed(dataMap, order) ==
    [i \in 1..Len(order) |-> dataMap[order[Len(order) + 1 - i]]]

\* doInsert: params = append(params, v) over the same "range dataMap".
InsertParams(dataMap, order) == [i \in 1..Len(order) |-> dataMap[order[i]]]

\* The ON DUPLICATE KEY UPDATE clause of the save option; empty otherwise.
\* <order> is the order in which the keys are visited.
onDuplicateUpdate(option, order) ==
    IF option = gINSERT_OPTION_SAVE
    THEN <<"ON DUPLICATE KEY UPDATE ">>
            \o Join([i \in 1..Len(order) |->
                        <<charL, order[i], charR, "=VALUES(", charL, order[i], charR, ")">>],
                    <<",">>)
    ELSE <<>>

\* doInsert: fmt.Sprintf("%s INTO %s(%s) VALUES(%s) %s", ...)
InsertStatement(operation, table, fields, values, updateStr) ==
    operation \o <<" INTO ">> \o table \o <<"(">> \o Join(fields, <<",">>)
        \o <<") VALUES(">> \o Join(values, <<",">>) \o <<") ">> \o updateStr

\* ------------------------------------------------------------------- state
VARIABLES
    pc,         \* pc[p]: where caller p is: "idle", "batch", "rows", "done"
    frame,      \* frame[p]: the arguments and local variables of p's call
    ret,        \* ret[p]: what p's call returned
    driverLog,  \* the calls made on links (Exec, Query, Begin), in order
    routerLog   \* the calls made on the router (Master, Slave), in order

vars == <<pc, frame, ret, driverLog, routerLog>>

NoFrame == [op |-> "none"]
NoRet == [result |-> NilResult, err |-> NoErr]

Init ==
    /\ pc = [p \in Procs |-> "idle"]
    /\ frame = [p \in Procs |-> NoFrame]
    /\ ret = [p \in Procs |-> NoRet]
    /\ driverLog = <<>>
    /\ routerLog = <<>>

\* --------------------------------------------------------------- the router
\* A variant of Route that asks the router whether or not a link was given.
RouteAlways(p, link, want, ok) ==
    [link |-> IF ok THEN (IF want = "Master" THEN MasterLink ELSE SlaveLink) ELSE NilLink,
     err |-> IF ok THEN NoErr ELSE ErrRouter(want),
     log |-> <<[proc |-> p, want |-> want, ok |-> ok]>>]

\* "if link == nil { link, err = bs.db.Master() / Slave() }": the router is
\* asked only without a link; <ok> is the router's answer.
Route(p, link, want, ok) ==
    IF link = NilLink
    THEN [link |-> IF ok THEN (IF want = "Master" THEN MasterLink ELSE SlaveLink) ELSE NilLink,
          err |-> IF ok THEN NoErr ELSE ErrRouter(want),
          log |-> <<[proc |-> p, want |-> want, ok |-> ok]>>]
    ELSE [link |-> link, err |-> NoErr, log |-> <<>>]

\* ------------------------------------------------------------------ doExec
\* The driver call doExec makes: link.Exec(query, args...) after formatQuery
\* and handleSqlBeforeExec (the same call with and without debug).
ExecCall(p, link, query, args) ==
    [proc |-> p, link |-> link, call |-> "Exec",
     sql |-> handleSqlBeforeExec(formatQuery(query, args).query),
     args |-> formatQuery(query, args).args]

\* What doExec returns when the driver answers <out>.
doExecReturn(call, out) ==
    [result |-> out.result, err |-> formatError(out.err, call.sql, call.args)]

\* The log entry of a driver call and its answer.
Logged(call, out) ==
    [proc |-> call.proc, link |-> call.link, call |-> call.call,
     sql |-> call.sql, args |-> call.args, out |-> out]

\* A call returns <result> and <err>; <in> is what its frame holds then.
Return(p, in, result, err) ==
    /\ pc' = [pc EXCEPT ![p] = "done"]
    /\ frame' = [frame EXCEPT ![p] = in]
    /\ ret' = [ret EXCEPT ![p] = [result |-> result, err |-> err]]

\* ------------------------------------------------------------- input data
\* The <data>/<list> arguments: a map or struct (one row), a slice of them,
\* or a value of another kind.
RECURSIVE ListsOfLen(_)
ListsOfLen(n) ==
    IF n = 0 THEN {<<>>}
    ELSE {Append(l, RowOf(n, ks)) : l \in ListsOfLen(n - 1), ks \in KeySets}

Lists == UNION {ListsOfLen(n) : n \in 0..MaxRows}

MapData == {[kind |-> "map", rows |-> <<RowOf(1, ks)>>] : ks \in KeySets}
SliceData == {[kind |-> "slice", rows |-> l] : l \in Lists}
OtherData == {[kind |-> "other", rows |-> <<>>]}

\* The variadic <batch> argument: absent, or one integer.
BatchArgs == {<<>>} \cup {<<n>> : n \in (-1)..MaxBatch}

\* ---------------------------------------------------------------- doInsert
\* doInsert for a map/struct or an unsupported kind (a slice goes to
\* doBatchInsert): one step, at most one Exec.
doInsert(p) ==
    /\ pc[p] = "idle"
    /\ \E link \in Links, data \in MapData \cup OtherData, option \in Options :
        LET in == [op |-> "doInsert", link |-> link, data |-> data,
                   option |-> option, batch |-> <<>>]
        IN
        IF data.kind = "other"
        THEN /\ Return(p, in, NilResult, ErrUnsupportedData)
             /\ UNCHANGED <<driverLog, routerLog>>
        ELSE
        LET dataMap == data.rows[1] IN
        IF Cardinality(DOMAIN dataMap) = 0
        THEN /\ Return(p, in, NilResult, ErrDataEmpty)
             /\ UNCHANGED <<driverLog, routerLog>>
        ELSE
        \E order \in RangeOrders(DOMAIN dataMap),
           order2 \in RangeOrders(DOMAIN dataMap),
           ok \in BOOLEAN, out \in ExecOutcomes :
            LET fields == InsertFields(order)
                values == InsertHolders(order)
                params == InsertParams(dataMap, order)
                operation == getInsertOperationByOption(option)
                updateStr == onDuplicateUpdate(option, order2)
                r == Route(p, link, "Master", ok)
                call == ExecCall(p, r.link,
                            InsertStatement(operation, handleTableName(Table),
                                            fields, values, updateStr),
                            params)
                res == doExecReturn(call, out)
            IN
            /\ routerLog' = routerLog \o r.log
            /\ IF r.err # NoErr
               THEN /\ Return(p, in, NilResult, r.err)
                    /\ UNCHANGED driverLog
               ELSE /\ driverLog' = Append(driverLog, Logged(call, out))
                    /\ Return(p, in, res.result, res.err)

\* ----------------------------------------------------------- doBatchInsert
\* keysStr := charL + strings.Join(keys, charR+","+charL) + charR
KeysStr(keys) ==
    <<charL>> \o Join([i \in 1..Len(keys) |-> <<keys[i]>>], <<charR, ",", charL>>) \o <<charR>>

\* valueHolderStr := "(" + strings.Join(holders, ",") + ")"
ValueHolderStr(holders) == <<"(">> \o Join(holders, <<",">>) \o <<")">>

\* fmt.Sprintf("%s INTO %s(%s) VALUES%s %s", ...)
BatchStatement(operation, table, keysStr, values, updateStr) ==
    operation \o <<" INTO ">> \o table \o <<"(">> \o keysStr
        \o <<") VALUES">> \o Join(values, <<",">>) \o <<" ">> \o updateStr

\* batchNum: the caller's value when it is positive, or else the default.
BatchNum(batch) ==
    IF Len(batch) > 0 /\ batch[1] > 0 THEN batch[1] ELSE gDEFAULT_BATCH_NUM

\* A variant of ShouldFlush that executes full chunks only.
ShouldFlushFullOnly(nvalues, batchNum, i, listMapLen) == nvalues = batchNum

\* The condition under which the pending chunk is executed; i counts from 0.
ShouldFlush(nvalues, batchNum, i, listMapLen) ==
    nvalues = batchNum \/ (i = listMapLen - 1 /\ nvalues > 0)

\* A variant of Accrue that keeps the last chunk's count only.
AccrueLast(batchResult, r) == BatchResult(r.rows, r)

\* batchResult.lastResult = r; batchResult.rowsAffected += n
Accrue(batchResult, r) == BatchResult(batchResult.rowsAffected + r.rows, r)

\* A variant of ChunkOutcome that drops the error of the Exec and goes on.
ChunkOutcomeIgnoringErr(r, last) == IF last THEN "return" ELSE "continue"

\* What follows the Exec of a chunk that returned r: the return of r with
\* the error of the Exec or of r.RowsAffected(), or the accrual and then the
\* next row, or the return of batchResult after the last row.
ChunkOutcome(r, last) ==
    IF r.err # NoErr THEN "exec error"
    ELSE IF ~r.result.raOk THEN "rows affected error"
    ELSE IF last THEN "return"
    ELSE "continue"

\* The params the row listMap[i] contributes, in the order of keys.
RowParams(row, keys) == [j \in 1..Len(keys) |-> MapGet(row, keys[j])]

\* The list conversion at the head of doBatchInsert.
ListMapOf(data) == data.rows

\* The head of doBatchInsert, up to the loop: the list conversion, the
\* validation, the link, the keys and holders of the first row, batchNum;
\* the arguments of the call are drawn from <links>, <inputs>, <options> and
\* <batches>.
BatchStartFrom(p, op, links, inputs, options, batches) ==
    /\ pc[p] = "idle"
    /\ \E link \in links, data \in inputs, option \in options, batch \in batches :
        LET in == [op |-> op, link |-> link, data |-> data,
                   option |-> option, batch |-> batch]
            listMap == ListMapOf(data)
        IN
        IF data.kind = "other"
        THEN /\ Return(p, in, NilResult, ErrUnsupportedList)
             /\ UNCHANGED <<driverLog, routerLog>>
        ELSE IF Len(listMap) < 1
        THEN /\ Return(p, in, NilResult, ErrListEmpty)
             /\ UNCHANGED <<driverLog, routerLog>>
        ELSE
        \E keys \in RangeOrders(DOMAIN listMap[1]), ok \in BOOLEAN :
            LET r == Route(p, link, "Master", ok) IN
            /\ routerLog' = routerLog \o r.log
            /\ UNCHANGED driverLog
            /\ IF r.err # NoErr
               THEN Return(p, in, NilResult, r.err)
               ELSE /\ pc' = [pc EXCEPT ![p] = "batch"]
                    /\ ret' = ret
                    /\ frame' = [frame EXCEPT ![p] =
                            [op |-> op, link |-> link, data |-> data,
                             option |-> option, batch |-> batch,
                             useLink |-> r.link,
                             listMap |-> listMap,
                             keys |-> keys,
                             holders |-> [j \in 1..Len(keys) |-> <<"?">>],
                             batchNum |-> BatchNum(batch),
                             i |-> 0,
                             values |-> <<>>,
                             params |-> <<>>,
                             batchResult |-> BatchResult(0, NilResult)]]

\* The head of doBatchInsert for any link, option and batch argument.
BatchStart(p, op, inputs) == BatchStartFrom(p, op, Links, inputs, Options, BatchArgs)

\* BatchInsert, BatchInsertIgnore, BatchReplace, BatchSave and their callers
\* with a link.
doBatchInsert(p) == BatchStart(p, "doBatchInsert", SliceData \cup MapData \cup OtherData)

\* Insert, InsertIgnore, Replace, Save given a slice: doInsert hands over to
\* doBatchInsert.
doInsertSlice(p) == BatchStart(p, "doInsert", SliceData)

\* A variant of PendingParams in which the argument buffer is one buffer of
\* the database object: a caller finds in it what the first caller in the
\* loop has pending.
PendingParamsShared(p) ==
    frame[CHOOSE q \in Procs :
            pc[q] = "batch" /\ \A r \in Procs : pc[r] = "batch" => q <= r].params

\* "var params []interface{}": the pending arguments are a local variable of
\* the call of doBatchInsert that caller p runs.
PendingParams(p) == frame[p].params

\* One iteration of the loop of doBatchInsert over row i, with the Exec of
\* the chunk when it is due, and the return after the last row.
BatchStep(p) ==
    /\ pc[p] = "batch"
    /\ LET f == frame[p]
           listMapLen == Len(f.listMap)
           params == PendingParams(p) \o RowParams(f.listMap[f.i + 1], f.keys)
           values == Append(f.values, ValueHolderStr(f.holders))
       IN
       /\ f.i < listMapLen
       /\ UNCHANGED routerLog
       /\ IF ShouldFlush(Len(values), f.batchNum, f.i, listMapLen)
          THEN \E out \in ExecOutcomes :
                LET call == ExecCall(p, f.useLink,
                                BatchStatement(getInsertOperationByOption(f.option),
                                               handleTableName(Table),
                                               KeysStr(f.keys), values,
                                               onDuplicateUpdate(f.option, f.keys)),
                                params)
                    r == doExecReturn(call, out)
                    batchResult == Accrue(f.batchResult, r.result)
                    next == ChunkOutcome(r, f.i + 1 = listMapLen)
                    g == [f EXCEPT !.i = f.i + 1, !.values = <<>>, !.params = <<>>,
                                   !.batchResult = batchResult]
                IN
                /\ driverLog' = Append(driverLog, Logged(call, out))
                /\ IF next = "exec error"
                   THEN Return(p, f, r.result, r.err)
                   ELSE IF next = "rows affected error"
                   THEN Return(p, f, r.result, ErrRowsAffected)
                   ELSE IF next = "return"
                   THEN Return(p, g, batchResult, NoErr)
                   ELSE /\ pc' = pc
                        /\ ret' = ret
                        /\ frame' = [frame EXCEPT ![p] = g]
          ELSE /\ driverLog' = driverLog
               /\ IF f.i + 1 = listMapLen
                  THEN Return(p, f, f.batchResult, NoErr)
                  ELSE /\ pc' = pc
                       /\ ret' = ret
                       /\ frame' = [frame EXCEPT ![p] =
                               [f EXCEPT !.i = f.i + 1, !.values = values, !.params = params]]

\* ------------------------------------------------ Update, Delete, Exec, Begin
\* What formatWhere hands back: the condition text and its arguments.
FormattedWheres ==
    {[where |-> <<>>, args |-> <<>>],
     [where |-> <<"id=", "?">>, args |-> <<Val(0, "id")>>],
     [where |-> <<"x>", "?", " AND y<", "?">>, args |-> <<Val(0, "x"), Val(0, "y")>>]}

\* Update/Delete: if newWhere != "" { newWhere = " WHERE " + newWhere }
WhereClause(where) == IF where # <<>> THEN <<" WHERE ">> \o where ELSE where

\* The <data> of Update given as a string: empty, or an update expression.
StringData == {[kind |-> "string", rows |-> <<>>, s |-> s] : s \in {<<>>, <<"n=n+1">>}}

\* doUpdate: fields = append(fields, quoteWord(k)+"=?") over "range" of the map.
UpdateFields(order) == [i \in 1..Len(order) |-> quoteWord(order[i]) \o <<"=", "?">>]

\* doUpdate: the SET assignments, of a map/struct or of any other value.
Updates(data, order) ==
    IF data.kind = "map" THEN Join(UpdateFields(order), <<",">>) ELSE data.s

\* A variant of UpdateArgs that puts the condition's arguments first.
UpdateArgsConditionFirst(params, args) == args \o params

\* doUpdate: if len(params) > 0 { args = append(params, args...) }
UpdateArgs(params, args) == IF Len(params) > 0 THEN params \o args ELSE args

\* A variant of doUpdate that looks at the emptiness of the assignments only
\* after the statement went to the driver.
doUpdateCheckingLate(p) ==
    /\ pc[p] = "idle"
    /\ \E link \in Links, data \in MapData \cup StringData, w \in FormattedWheres :
        LET in == [op |-> "doUpdate", link |-> link, data |-> data, cond |-> w]
            keySet == IF data.kind = "map" THEN DOMAIN data.rows[1] ELSE {}
        IN
        \E order \in RangeOrders(keySet), ok \in BOOLEAN, out \in ExecOutcomes :
            LET updates == Updates(data, order)
                params == IF data.kind = "map"
                          THEN InsertParams(data.rows[1], order) ELSE <<>>
                r == Route(p, link, "Master", ok)
                call == ExecCall(p, r.link,
                            <<"UPDATE ">> \o handleTableName(Table) \o <<" SET ">>
                                \o updates \o WhereClause(w.where),
                            UpdateArgs(params, w.args))
                res == doExecReturn(call, out)
            IN
            /\ routerLog' = routerLog \o r.log
            /\ IF r.err # NoErr
               THEN /\ Return(p, in, NilResult, r.err)
                    /\ UNCHANGED driverLog
               ELSE /\ driverLog' = Append(driverLog, Logged(call, out))
                    /\ IF Len(updates) = 0
                       THEN Return(p, in, NilResult, ErrDataEmpty)
                       ELSE Return(p, in, res.result, res.err)

\* Update and doUpdate: one step, at most one Exec.
doUpdate(p) ==
    /\ pc[p] = "idle"
    /\ \E link \in Links, data \in MapData \cup StringData, w \in FormattedWheres :
        LET in == [op |-> "doUpdate", link |-> link, data |-> data, cond |-> w]
            keySet == IF data.kind = "map" THEN DOMAIN data.rows[1] ELSE {}
        IN
        \E order \in RangeOrders(keySet), ok \in BOOLEAN, out \in ExecOutcomes :
            LET updates == Updates(data, order)
                params == IF data.kind = "map"
                          THEN InsertParams(data.rows[1], order) ELSE <<>>
                args == UpdateArgs(params, w.args)
                r == Route(p, link, "Master", ok)
                call == ExecCall(p, r.link,
                            <<"UPDATE ">> \o handleTableName(Table) \o <<" SET ">>
                                \o updates \o WhereClause(w.where),
                            args)
                res == doExecReturn(call, out)
            IN
            IF Len(updates) = 0
            THEN /\ Return(p, in, NilResult, ErrDataEmpty)
                 /\ UNCHANGED <<driverLog, routerLog>>
            ELSE /\ routerLog' = routerLog \o r.log
                 /\ IF r.err # NoErr
                    THEN /\ Return(p, in, NilResult, r.err)
                         /\ UNCHANGED driverLog
                    ELSE /\ driverLog' = Append(driverLog, Logged(call, out))
                         /\ Return(p, in, res.result, res.err)

\* Delete and doDelete: one step, at most one Exec.
doDelete(p) ==
    /\ pc[p] = "idle"
    /\ \E link \in Links, w \in FormattedWheres, ok \in BOOLEAN, out \in ExecOutcomes :
        LET in == [op |-> "doDelete", link |-> link, cond |-> w]
            r == Route(p, link, "Master", ok)
            call == ExecCall(p, r.link,
                        <<"DELETE FROM ">> \o handleTableName(Table) \o WhereClause(w.where),
                        w.args)
            res == doExecReturn(call, out)
        IN
        /\ routerLog' = routerLog \o r.log
        /\ IF r.err # NoErr
           THEN /\ Return(p, in, NilResult, r.err)
                /\ UNCHANGED driverLog
           ELSE /\ driverLog' = Append(driverLog, Logged(call, out))
                /\ Return(p, in, res.result, res.err)

\* The statements callers hand to Exec and Query themselves.
RawExecs == {[sql |-> <<"UPDATE t SET n=n+1 WHERE id=", "?">>, args |-> <<Val(0, "id")>>]}
RawQueries == {[sql |-> <<"SELECT * FROM t WHERE id>", "?">>, args |-> <<Val(0, "id")>>]}

\* Exec: the master link, then doExec.
Exec(p) ==
    /\ pc[p] = "idle"
    /\ \E q \in RawExecs, ok \in BOOLEAN, out \in ExecOutcomes :
        LET in == [op |-> "Exec", link |-> NilLink, query |-> q]
            r == Route(p, NilLink, "Master", ok)
            call == ExecCall(p, r.link, q.sql, q.args)
            res == doExecReturn(call, out)
        IN
        /\ routerLog' = routerLog \o r.log
        /\ IF r.err # NoErr
           THEN /\ Return(p, in, NilResult, r.err)
                /\ UNCHANGED driverLog
           ELSE /\ driverLog' = Append(driverLog, Logged(call, out))
                /\ Return(p, in, res.result, res.err)

\* Begin: the master link, then master.Begin().
Begin(p) ==
    /\ pc[p] = "idle"
    /\ \E ok \in BOOLEAN, began \in BOOLEAN :
        LET in == [op |-> "Begin", link |-> NilLink]
            r == Route(p, NilLink, "Master", ok)
            call == [proc |-> p, link |-> r.link, call |-> "Begin", sql |-> <<>>, args |-> <<>>]
        IN
        /\ routerLog' = routerLog \o r.log
        /\ IF r.err # NoErr
           THEN /\ Return(p, in, NilResult, r.err)
                /\ UNCHANGED driverLog
           ELSE /\ driverLog' = Append(driverLog, Logged(call, [ok |-> began]))
                /\ IF began
                   THEN Return(p, in, [kind |-> "tx", master |-> r.link], NoErr)
                   ELSE Return(p, in, NilResult, ErrDriver)

\* ------------------------------------------------------------ driver cursors
\* sql.RawBytes a Scan leaves in the buffer: nil for a NULL column, or bytes
\* (possibly none).
RawNull == [isNil |-> TRUE, bytes |-> <<>>]
Raw(b) == [isNil |-> FALSE, bytes |-> b]
RawCells == {RawNull, Raw(<<>>), Raw(<<1>>)}

\* The columns of a cursor: names (not necessarily distinct) and type names.
ColumnLists ==
    {<<[name |-> "a", type |-> "INT"]>>,
     <<[name |-> "a", type |-> "INT"], [name |-> "b", type |-> "VARCHAR"]>>,
     <<[name |-> "a", type |-> "INT"], [name |-> "a", type |-> "VARCHAR"]>>}

RECURSIVE RowSeqs(_, _)
\* The sequences of n rows of <width> cells.
RowSeqs(n, width) ==
    IF n = 0 THEN {<<>>}
    ELSE {Append(rs, r) : rs \in RowSeqs(n - 1, width), r \in [1..width -> RawCells]}

\* The cursors link.Query may hand back.
Cursors ==
    UNION {{[cols |-> cols, rows |-> rows] :
                rows \in UNION {RowSeqs(n, Len(cols)) : n \in 0..MaxCursorRows}} :
           cols \in ColumnLists}

\* ------------------------------------------------------------ rowsToResult
\* Result and Record values: Go's nil, or a slice / map.
NilRecords == [kind |-> "result", isNil |-> TRUE, list |-> <<>>]
Records(list) == [kind |-> "result", isNil |-> FALSE, list |-> list]
NilRecord == [kind |-> "record", isNil |-> TRUE, map |-> <<>>]

\* A variant of CopyBytes that stores the slice of the scan buffer itself.
AliasBytes(value, i) == [alias |-> TRUE, slot |-> i, bytes |-> <<>>]

\* v := make([]byte, len(value)); copy(v, value): a slice of its own.
CopyBytes(value, i) == [alias |-> FALSE, slot |-> 0, bytes |-> value.bytes]

\* convertValue(v, columnType): the bytes paired with the column's type name.
convertValue(v, columnType) == [raw |-> v, type |-> columnType]

\* What gvar.New(nil) holds.
NullVal == [raw |-> [alias |-> FALSE, slot |-> 0, bytes |-> <<>>], type |-> ""]

\* A variant of Finish in which GetStruct does not look for an empty Record.
FinishWithoutNoRows(op, result, err, structOk) ==
    IF op \in {"doGetAll", "GetAll"} THEN [result |-> result, err |-> err]
    ELSE IF err # NoErr
    THEN [result |-> IF op = "GetOne" THEN NilRecord ELSE NilResult, err |-> err]
    ELSE IF op = "GetOne"
    THEN [result |-> IF Len(result.list) > 0 THEN result.list[1] ELSE NilRecord,
          err |-> NoErr]
    ELSE [result |-> NilResult,
          err |-> IF structOk THEN NoErr ELSE Err("struct conversion error")]

\* The gvar stored for column i: gvar.New(nil) for a nil value, or else
\* gvar.New(convertValue(copy, columnTypes[i])).
NewVar(value, i, columnType) ==
    IF value.isNil
    THEN [isNull |-> TRUE, val |-> NullVal]
    ELSE [isNull |-> FALSE, val |-> convertValue(CopyBytes(value, i), columnType)]

\* The last column that bears the name n: "row[columnNames[i]] = ..." in
\* the order of the columns leaves the last one.
LastIndex(names, n) ==
    CHOOSE i \in 1..Len(names) :
        names[i] = n /\ \A j \in (i + 1)..Len(names) : names[j] # n

\* The Record built from the scan buffer <values>.
RowRecord(values, columnNames, columnTypes) ==
    [kind |-> "record", isNil |-> FALSE,
     map |-> [n \in {columnNames[i] : i \in 1..Len(columnNames)} |->
                NewVar(values[LastIndex(columnNames, n)],
                       LastIndex(columnNames, n),
                       columnTypes[LastIndex(columnNames, n)])]]

\* A variant of ScanFailResult that drops the rows decoded so far.
ScanFailResultNil(records) == NilRecords

\* "if err := rows.Scan(scanArgs...); err != nil { return records, err }"
ScanFailResult(records) == Records(records)

\* The bytes a stored slice shows when it is read while the scan buffer
\* holds <buf>.
BytesOf(v, buf) == IF v.alias THEN buf[v.slot].bytes ELSE v.bytes

\* What GetAll, GetOne and GetStruct make of the (Result, error) of doGetAll;
\* <structOk> is the answer of Record.Struct.
Finish(op, result, err, structOk) ==
    IF op \in {"doGetAll", "GetAll"} THEN [result |-> result, err |-> err]
    ELSE LET one == IF err # NoErr THEN [result |-> NilRecord, err |-> err]
                    ELSE IF Len(result.list) > 0
                    THEN [result |-> result.list[1], err |-> NoErr]
                    ELSE [result |-> NilRecord, err |-> NoErr]
         IN
         IF op = "GetOne" THEN one
         ELSE IF one.err # NoErr THEN [result |-> NilResult, err |-> one.err]
         ELSE IF Cardinality(DOMAIN one.result.map) = 0
         THEN [result |-> NilResult, err |-> ErrNoRows]
         ELSE [result |-> NilResult,
               err |-> IF structOk THEN NoErr ELSE Err("struct conversion error")]

\* The query operations: doGetAll with or without a link; GetAll, GetOne and
\* GetStruct without one.
QueryOps ==
    {[op |-> "doGetAll", link |-> l] : l \in Links}
        \cup {[op |-> o, link |-> NilLink] : o \in {"GetAll", "GetOne", "GetStruct"}}

\* A query call returns: the frame keeps the cursor and the scan buffer.
ReturnRows(p, f, result, err, structOk) ==
    /\ pc' = [pc EXCEPT ![p] = "done"]
    /\ frame' = [frame EXCEPT ![p] = f]
    /\ ret' = [ret EXCEPT ![p] = Finish(f.op, result, err, structOk)]

\* doGetAll up to the loop of rowsToResult: the slave link, doQuery, the
\* first rows.Next(), rows.ColumnTypes() and the scan buffer; the operation
\* is drawn from <ops> and the cursor the driver hands back from <cursors>.
doGetAllFrom(p, ops, cursors) ==
    /\ pc[p] = "idle"
    /\ \E o \in ops, q \in RawQueries, ok \in BOOLEAN, queryOk \in BOOLEAN,
          cur \in cursors, typesOk \in BOOLEAN, structOk \in BOOLEAN :
        LET r == Route(p, o.link, "Slave", ok)
            call == [proc |-> p, link |-> r.link, call |-> "Query",
                     sql |-> handleSqlBeforeExec(formatQuery(q.sql, q.args).query),
                     args |-> formatQuery(q.sql, q.args).args]
            in == [op |-> o.op, link |-> o.link, query |-> q]
            f == [op |-> o.op, link |-> o.link, query |-> q, cursor |-> cur,
                  pos |-> 1,
                  columnNames |-> [i \in 1..Len(cur.cols) |-> cur.cols[i].name],
                  columnTypes |-> [i \in 1..Len(cur.cols) |-> cur.cols[i].type],
                  values |-> [i \in 1..Len(cur.cols) |-> RawNull],
                  records |-> <<>>]
        IN
        /\ routerLog' = routerLog \o r.log
        /\ IF r.err # NoErr
           THEN /\ ReturnRows(p, in, NilRecords, r.err, structOk)
                /\ UNCHANGED driverLog
           ELSE IF ~queryOk
           THEN /\ driverLog' = Append(driverLog, Logged(call, [ok |-> FALSE]))
                /\ ReturnRows(p, in, NilRecords,
                              formatError(ErrDriver, call.sql, call.args), structOk)
           ELSE /\ driverLog' = Append(driverLog, Logged(call, [ok |-> TRUE]))
                /\ IF Len(cur.rows) = 0
                   THEN ReturnRows(p, f, NilRecords, NoErr, structOk)
                   ELSE IF ~typesOk
                   THEN ReturnRows(p, f, NilRecords, ErrColumnTypes, structOk)
                   ELSE /\ pc' = [pc EXCEPT ![p] = "rows"]
                        /\ frame' = [frame EXCEPT ![p] = f]
                        /\ ret' = ret

\* GetAll, GetOne, GetStruct and doGetAll, for any cursor.
doGetAll(p) == doGetAllFrom(p, QueryOps, Cursors)

\* One iteration of the loop of rowsToResult: Scan into the buffer, build and
\* append the Record, rows.Next(); and the return when the loop ends.
RowsStep(p) ==
    /\ pc[p] = "rows"
    /\ UNCHANGED <<driverLog, routerLog>>
    /\ \E scanOk \in BOOLEAN, structOk \in BOOLEAN :
        LET f == frame[p]
            values == f.cursor.rows[f.pos]
            row == RowRecord(values, f.columnNames, f.columnTypes)
            records == Append(f.records, row)
        IN
        IF ~scanOk
        THEN ReturnRows(p, f, ScanFailResult(f.records), ErrScan, structOk)
        ELSE IF f.pos < Len(f.cursor.rows)
        THEN /\ pc' = pc
             /\ ret' = ret
             /\ frame' = [frame EXCEPT ![p] =
                     [f EXCEPT !.values = values, !.records = records, !.pos = f.pos + 1]]
        ELSE ReturnRows(p, [f EXCEPT !.values = values, !.records = records],
                        Records(records), NoErr, structOk)

\* Query: the slave link, then doQuery; the cursor goes to the caller.
Query(p) ==
    /\ pc[p] = "idle"
    /\ \E q \in RawQueries, ok \in BOOLEAN, queryOk \in BOOLEAN, cur \in Cursors :
        LET in == [op |-> "Query", link |-> NilLink, query |-> q]
            r == Route(p, NilLink, "Slave", ok)
            call == [proc |-> p, link |-> r.link, call |-> "Query",
                     sql |-> handleSqlBeforeExec(formatQuery(q.sql, q.args).query),
                     args |-> formatQuery(q.sql, q.args).args]
        IN
        /\ routerLog' = routerLog \o r.log
        /\ IF r.err # NoErr
           THEN /\ Return(p, in, NilResult, r.err)
                /\ UNCHANGED driverLog
           ELSE IF ~queryOk
           THEN /\ driverLog' = Append(driverLog, Logged(call, [ok |-> FALSE]))
                /\ Return(p, in, NilResult, formatError(ErrDriver, call.sql, call.args))
           ELSE /\ driverLog' = Append(driverLog, Logged(call, [ok |-> TRUE]))
                /\ Return(p, in, [kind |-> "rows", cursor |-> cur], NoErr)

Next ==
    \E p \in {1} :
        \/ doInsert(p)
        \/ doInsertSlice(p)
        \/ doBatchInsert(p)
        \/ BatchStep(p)
        \/ doUpdate(p)
        \/ doDelete(p)
        \/ Exec(p)
        \/ Begin(p)
        \/ Query(p)
        \/ doGetAll(p)
        \/ RowsStep(p)

Spec == Init /\ [][Next]_vars

\* ------------------------------------------------------- concurrent callers
\* The calls of the concurrent callers: batch inserts on a transaction link
\* with a chunk size of their own, over rows of one column, ...
ConcLists ==
    {[kind |-> "slice", rows |-> [i \in 1..n |-> RowOf(i, {"a"})]] : n \in 1..MaxRows}
ConcBatches == {<<n>> : n \in 1..MaxBatch}

\* ... and doGetAll on a transaction link, over cursors of one column whose
\* rows hold bytes and NULL in turn.
ConcCursors ==
    {[cols |-> <<[name |-> "a", type |-> "INT"]>>,
      rows |-> [i \in 1..n |-> IF i % 2 = 1 THEN <<Raw(<<1>>)>> ELSE <<RawNull>>]] :
        n \in 0..MaxCursorRows}

\* A caller starts a batch insert.
ConcBatchInsert(p) ==
    BatchStartFrom(p, "doBatchInsert", {TxLink}, ConcLists,
                   {gINSERT_OPTION_DEFAULT}, ConcBatches)

\* A caller starts a query.
ConcGetAll(p) == doGetAllFrom(p, {[op |-> "doGetAll", link |-> TxLink]}, ConcCursors)

\* Every caller of Procs runs one operation on the same database object; the
\* steps of their loops and their driver calls interleave in any order.
NextConc ==
    \E p \in Procs :
        \/ ConcBatchInsert(p)
        \/ BatchStep(p)
        \/ ConcGetAll(p)
        \/ RowsStep(p)

SpecConc == Init /\ [][NextConc]_vars

\* ============================================================== properties
\* The driver calls of kind <kind> that caller p's operation made, in order.
CallsOf(p, kind) == SelectSeq(driverLog, LAMBDA e : e.proc = p /\ e.call = kind)

\* Every driver call of caller p's operation, in order.
DriverCallsOf(p) == SelectSeq(driverLog, LAMBDA e : e.proc = p)

\* The router requests of caller p's operation, in order.
RouterCallsOf(p) == SelectSeq(routerLog, LAMBDA e : e.proc = p)

\* Caller p runs or has run the loop of a batch insert.
InBatch(p) == pc[p] \in {"batch", "done"} /\ "listMap" \in DOMAIN frame[p]

\* A logged Exec succeeded, and so did the RowsAffected() of its result.
ExecSucceeded(e) == e.out.err = NoErr /\ e.out.result.raOk

RECURSIVE SumRows(_)
\* The sum of the rows-affected the driver reported for the Execs of es.
SumRows(es) == IF Len(es) = 0 THEN 0 ELSE Head(es).out.result.rows + SumRows(Tail(es))

\* ceil(m / c) for c >= 1
Ceil(m, c) == (m + c - 1) \div c

\* The chunk size in effect: the caller's value when it is positive, or else
\* the default.
EffectiveChunk(batch) ==
    IF Len(batch) = 0 THEN gDEFAULT_BATCH_NUM
    ELSE IF batch[1] >= 1 THEN batch[1]
    ELSE gDEFAULT_BATCH_NUM

\* C1: a batch insert of m >= 1 rows with effective chunk size c whose Execs
\* all succeed returns without error after exactly ceil(m/c) Execs, and the
\* rows-affected of the result it returns is the sum of the rows-affected the
\* driver reported for these Execs.
C1_ExecCountAndSum ==
    \A p \in Procs :
        (InBatch(p) /\ pc[p] = "done"
            /\ \A j \in 1..Len(CallsOf(p, "Exec")) : ExecSucceeded(CallsOf(p, "Exec")[j]))
        => /\ ret[p].err = NoErr
           /\ Len(CallsOf(p, "Exec"))
                = Ceil(Len(frame[p].listMap), EffectiveChunk(frame[p].batch))
           /\ ret[p].result.kind = "batch"
           /\ ret[p].result.rowsAffected = SumRows(CallsOf(p, "Exec"))

\* C1 witness: three rows in chunks of two took two Execs that reported 1 and
\* 2 rows, and the call returned 3.
C1_Witness ==
    \E p \in Procs :
        /\ InBatch(p) /\ pc[p] = "done"
        /\ Len(frame[p].listMap) = 3
        /\ frame[p].batch = <<2>>
        /\ Len(CallsOf(p, "Exec")) = 2
        /\ CallsOf(p, "Exec")[1].out.result = NativeResult(1, TRUE)
        /\ CallsOf(p, "Exec")[2].out.result = NativeResult(2, TRUE)
        /\ ret[p].err = NoErr
        /\ ret[p].result.rowsAffected = 3

\* The number of rows of chunk j when m rows go in chunks of c.
ChunkLen(m, c, j) == IF j * c <= m THEN c ELSE m - (j - 1) * c

RECURSIVE RowsParams(_, _, _, _)
\* The values of rows from..to of listMap, row by row, each in the order of keys.
RowsParams(listMap, keys, from, to) ==
    IF from > to THEN <<>>
    ELSE [j \in 1..Len(keys) |-> IF keys[j] \in DOMAIN listMap[from]
                                 THEN listMap[from][keys[j]] ELSE NilValue]
            \o RowsParams(listMap, keys, from + 1, to)

\* The logged Exec e carries chunk j of caller p's batch: the rows
\* (j-1)c+1 .. min(jc, m), one value group each, and their values.
IsChunk(p, e, j) ==
    LET m == Len(frame[p].listMap)
        c == EffectiveChunk(frame[p].batch)
    IN
    /\ (j - 1) * c < m
    /\ CountTok(e.sql, "(") - 1 = ChunkLen(m, c, j)
    /\ e.args = RowsParams(frame[p].listMap, frame[p].keys,
                           (j - 1) * c + 1, (j - 1) * c + ChunkLen(m, c, j))

\* C2: in a batch insert the j-th Exec carries chunk j (so the chunks before a
\* failing chunk k were executed once each, in submission order), and an Exec
\* that failed is the last Exec of the call, which has returned: chunk k is
\* not tried again and no later chunk is executed.
C2_FailFastInOrder ==
    \A p \in Procs :
        InBatch(p) =>
            \A j \in 1..Len(CallsOf(p, "Exec")) :
                /\ IsChunk(p, CallsOf(p, "Exec")[j], j)
                /\ CallsOf(p, "Exec")[j].out.err # NoErr
                    => (j = Len(CallsOf(p, "Exec")) /\ pc[p] = "done")

\* C2 witness: of three chunks of one row the first succeeded and the second
\* failed; the call has returned after these two Execs.
C2_Witness ==
    \E p \in Procs :
        /\ InBatch(p) /\ pc[p] = "done"
        /\ Len(frame[p].listMap) = 3
        /\ frame[p].batch = <<1>>
        /\ Len(frame[p].keys) = 2
        /\ Len(CallsOf(p, "Exec")) = 2
        /\ ExecSucceeded(CallsOf(p, "Exec")[1])
        /\ CallsOf(p, "Exec")[2].out.err # NoErr

\* C3: when the Exec of a chunk fails, the batch insert returns the error
\* together with the aggregate result whose rows-affected is the sum of the
\* rows-affected of the chunks executed before the failing one.
C3_PartialAggregateOnFailure ==
    \A p \in Procs :
        (InBatch(p) /\ pc[p] = "done"
            /\ Len(CallsOf(p, "Exec")) >= 1
            /\ CallsOf(p, "Exec")[Len(CallsOf(p, "Exec"))].out.err # NoErr)
        => /\ ret[p].err # NoErr
           /\ ret[p].result.kind = "batch"
           /\ ret[p].result.rowsAffected
                = SumRows(SubSeq(CallsOf(p, "Exec"), 1, Len(CallsOf(p, "Exec")) - 1))

\* The errors an operation raises before it dispatches a statement.
PreDispatchErrors ==
    {ErrDataEmpty, ErrListEmpty, ErrUnsupportedData, ErrUnsupportedList,
     ErrRouter("Master"), ErrRouter("Slave")}

\* C4: an operation that returned an error detected before dispatch (empty
\* data row, empty data list, unsupported input type, empty update
\* assignments, no link from the router) made no driver call on any link.
C4_NoDriverCallOnEarlyError ==
    \A p \in Procs :
        (pc[p] = "done" /\ ret[p].err \in PreDispatchErrors)
            => Len(DriverCallsOf(p)) = 0

\* C4 witness: an Update with empty assignments returned "data cannot be
\* empty", and the driver saw nothing.
C4_Witness ==
    \E p \in Procs :
        /\ pc[p] = "done"
        /\ frame[p].op = "doUpdate"
        /\ ret[p].err = ErrDataEmpty
        /\ driverLog = <<>>

\* C5: a batch insert whose first row has no columns fails with the
\* data-empty error and issues no Exec (given a link or a router that
\* supplies one), as a batch of no rows does.
C5_EmptyColumnListRejected ==
    \A p \in Procs :
        (InBatch(p) /\ Cardinality(DOMAIN frame[p].listMap[1]) = 0)
            => /\ Len(CallsOf(p, "Exec")) = 0
               /\ pc[p] = "done" => ret[p].err \in {ErrDataEmpty, ErrListEmpty}

\* The operations that change data, and those that read it.
MutationOps == {"doInsert", "doBatchInsert", "doUpdate", "doDelete", "Exec", "Begin"}
ReadOps == {"Query", "doGetAll", "GetAll", "GetOne", "GetStruct"}

\* The router request an operation makes, and the link the router answers with.
WantOf(op) == IF op \in MutationOps THEN "Master" ELSE "Slave"
RouterLinkOf(op) == IF op \in MutationOps THEN MasterLink ELSE SlaveLink

\* C6: an operation called without a link asks the router for nothing but the
\* master link when it is a mutation and nothing but the slave link when it is
\* a query, once at most, and its driver calls go through the link the router
\* supplied; an operation called with a link never asks the router, and its
\* driver calls all go through that link.
C6_Routing ==
    \A p \in Procs :
        pc[p] # "idle" =>
            IF frame[p].link = NilLink
            THEN /\ Len(RouterCallsOf(p)) <= 1
                 /\ \A j \in 1..Len(RouterCallsOf(p)) :
                        RouterCallsOf(p)[j].want = WantOf(frame[p].op)
                 /\ \A j \in 1..Len(DriverCallsOf(p)) :
                        /\ RouterCallsOf(p) = <<[proc |-> p, want |-> WantOf(frame[p].op),
                                                 ok |-> TRUE]>>
                        /\ DriverCallsOf(p)[j].link = RouterLinkOf(frame[p].op)
            ELSE /\ Len(RouterCallsOf(p)) = 0
                 /\ \A j \in 1..Len(DriverCallsOf(p)) :
                        DriverCallsOf(p)[j].link = frame[p].link

\* C6 witness: a batch insert called with a link made two Execs on that link
\* and the router was not asked.
C6_Witness ==
    \E p \in Procs :
        /\ InBatch(p)
        /\ frame[p].link = TxLink
        /\ Len(CallsOf(p, "Exec")) = 2
        /\ routerLog = <<>>

\* Caller p runs or has run rowsToResult on the cursor of its query.
HasCursor(p) == pc[p] \in {"rows", "done"} /\ "cursor" \in DOMAIN frame[p]

\* The Record rec holds the driver row <row> of a cursor with columns <cols>,
\* read while the scan buffer holds <buf>: one entry per column name (of
\* columns that share a name, the last one), an explicit null for a NULL
\* column, and otherwise the bytes and the type name of the column.
RecordHoldsRow(rec, row, cols, buf) ==
    /\ ~rec.isNil
    /\ DOMAIN rec.map = {cols[j].name : j \in 1..Len(cols)}
    /\ \A j \in 1..Len(cols) :
        (\A k \in (j + 1)..Len(cols) : cols[k].name # cols[j].name)
            => IF row[j].isNil
               THEN rec.map[cols[j].name].isNull
               ELSE /\ ~rec.map[cols[j].name].isNull
                    /\ BytesOf(rec.map[cols[j].name].val.raw, buf) = row[j].bytes
                    /\ rec.map[cols[j].name].val.type = cols[j].type

\* The Records caller p's rowsToResult has decoded: those of the loop while
\* it runs, those it returned afterwards.
Decoded(p) == IF pc[p] = "rows" THEN frame[p].records ELSE ret[p].result.list

\* C7: the Records of rowsToResult stand in driver row order, one per driver
\* row, and the i-th Record holds the values of the i-th driver row whatever
\* the shared scan buffer holds by now (also once the whole cursor has been
\* consumed); a NULL column is an explicit null, not an empty byte string.
C7_RecordsHoldRows ==
    \A p \in Procs :
        (HasCursor(p) /\ frame[p].op \in {"doGetAll", "GetAll"})
        => /\ \A i \in 1..Len(Decoded(p)) :
                /\ i <= Len(frame[p].cursor.rows)
                /\ RecordHoldsRow(Decoded(p)[i], frame[p].cursor.rows[i],
                                  frame[p].cursor.cols, frame[p].values)
           /\ (pc[p] = "done" /\ ret[p].err = NoErr)
                => Len(ret[p].result.list) = Len(frame[p].cursor.rows)

\* C7 witness: a cursor of two rows was consumed whose first row holds bytes
\* and a NULL and whose second row, scanned into the same buffer, holds other
\* bytes and an empty byte string.
C7_Witness ==
    \E p \in Procs :
        /\ HasCursor(p) /\ pc[p] = "done"
        /\ frame[p].op = "GetAll"
        /\ ret[p].err = NoErr
        /\ frame[p].cursor.rows = << <<Raw(<<1>>), RawNull>>, <<Raw(<<>>), Raw(<<>>)>> >>
        /\ frame[p].values = <<Raw(<<>>), Raw(<<>>)>>
        /\ Len(ret[p].result.list) = 2

\* The query of caller p's operation went to the driver and succeeded.
QuerySucceeded(p) ==
    Len(CallsOf(p, "Query")) = 1 /\ CallsOf(p, "Query")[1].out.ok

\* The query of caller p's operation succeeded and yielded no row.
ZeroRows(p) == QuerySucceeded(p) /\ Len(frame[p].cursor.rows) = 0

\* C8: when the query succeeded and yielded no row, GetAll returns an empty
\* RecordSet and no error, GetOne returns the nil Record and no error and
\* GetStruct returns sql.ErrNoRows; GetOne and GetStruct return these in no
\* other case (not for a row that was found, not for a query that failed).
C8_ZeroRows ==
    \A p \in Procs :
        pc[p] = "done" =>
            /\ frame[p].op \in {"doGetAll", "GetAll"}
                => (ZeroRows(p) => (Len(ret[p].result.list) = 0 /\ ret[p].err = NoErr))
            /\ frame[p].op = "GetOne"
                => (ZeroRows(p) <=> (ret[p].result.isNil /\ ret[p].err = NoErr))
            /\ frame[p].op = "GetStruct"
                => (ZeroRows(p) <=> ret[p].err = ErrNoRows)

\* C8 witness: GetStruct on a query of no rows returned sql.ErrNoRows.
C8_Witness ==
    \E p \in Procs :
        /\ pc[p] = "done"
        /\ frame[p].op = "GetStruct"
        /\ ZeroRows(p)
        /\ ret[p].err = ErrNoRows

\* C9: when the Scan of the k-th row fails, rowsToResult (and doGetAll,
\* GetAll) returns the scan error together with a non-nil RecordSet of the
\* k-1 rows decoded before, in driver row order; the cursor stays on row k.
C9_PartialOnScanError ==
    \A p \in Procs :
        (HasCursor(p) /\ pc[p] = "done" /\ frame[p].op \in {"doGetAll", "GetAll"}
            /\ ret[p].err = ErrScan)
        => /\ ~ret[p].result.isNil
           /\ Len(ret[p].result.list) = frame[p].pos - 1
           /\ \A i \in 1..Len(ret[p].result.list) :
                RecordHoldsRow(ret[p].result.list[i], frame[p].cursor.rows[i],
                               frame[p].cursor.cols, frame[p].values)

\* C9 witness: the Scan of the second row failed and the Record of the first
\* row came back with the error.
C9_Witness ==
    \E p \in Procs :
        /\ HasCursor(p) /\ pc[p] = "done"
        /\ frame[p].op = "doGetAll"
        /\ ret[p].err = ErrScan
        /\ frame[p].pos = 2
        /\ Len(ret[p].result.list) = 1

\* The place of the first token t in the string s.
IndexOf(s, t) ==
    CHOOSE i \in 1..Len(s) : s[i] = t /\ \A j \in 1..(i - 1) : s[j] # t

\* The text of a single-row insert statement between "(" and ") VALUES(":
\* the column list.
ColumnPart(sql) == SubSeq(sql, IndexOf(sql, "(") + 1, IndexOf(sql, ") VALUES(") - 1)

\* C10: the statement doInsert hands to Exec for a row of n >= 1 columns, in
\* every write mode, lists n quoted columns separated by commas, holds n
\* placeholders and comes with n arguments, the i-th of which is the row's
\* value of the i-th listed column.
C10_InsertStatementAligned ==
    \A p \in Procs :
        (pc[p] = "done" /\ frame[p].op = "doInsert" /\ frame[p].data.kind = "map")
        => \A e \in {CallsOf(p, "Exec")[j] : j \in 1..Len(CallsOf(p, "Exec"))} :
            LET row == frame[p].data.rows[1]
                n == Cardinality(DOMAIN row)
                part == ColumnPart(e.sql)
            IN
            /\ n >= 1
            /\ Len(part) = 4 * n - 1
            /\ \A j \in 1..n :
                /\ part[4 * j - 3] = charL
                /\ part[4 * j - 2] \in DOMAIN row
                /\ part[4 * j - 1] = charR
                /\ j < n => part[4 * j] = ","
                /\ \A k \in 1..n : part[4 * k - 2] = part[4 * j - 2] => k = j
            /\ CountTok(e.sql, "?") = n
            /\ Len(e.args) = n
            /\ \A j \in 1..n : e.args[j] = row[part[4 * j - 2]]

\* C10 witness: a save of a row of two columns reached the driver.
C10_Witness ==
    \E p \in Procs :
        /\ pc[p] = "done" /\ frame[p].op = "doInsert" /\ frame[p].data.kind = "map"
        /\ frame[p].option = gINSERT_OPTION_SAVE
        /\ Cardinality(DOMAIN frame[p].data.rows[1]) = 2
        /\ Len(CallsOf(p, "Exec")) = 1
        /\ Len(CallsOf(p, "Exec")[1].args) = 2

\* The text of an UPDATE statement between " SET " and " WHERE " (or the end):
\* the assignments.
SetPart(sql) ==
    SubSeq(sql, IndexOf(sql, " SET ") + 1,
           IF CountTok(sql, " WHERE ") = 0 THEN Len(sql) ELSE IndexOf(sql, " WHERE ") - 1)

\* C11: the statement Update hands to Exec for a record of d >= 1 columns and a
\* formatted condition with a arguments has d assignments "quoted column = ?"
\* and d+a arguments: first the record's values in the order of the
\* assignments, then the condition's arguments in their order; it has a WHERE
\* clause exactly when the formatted condition is not empty; and an Update
\* whose assignments are empty returns the data-empty error without any Exec.
C11_UpdateArguments ==
    \A p \in Procs :
        (pc[p] = "done" /\ frame[p].op = "doUpdate")
        => /\ frame[p].data.kind = "map" =>
                \A e \in {CallsOf(p, "Exec")[j] : j \in 1..Len(CallsOf(p, "Exec"))} :
                    LET row == frame[p].data.rows[1]
                        d == Cardinality(DOMAIN row)
                        cond == frame[p].cond
                        a == Len(cond.args)
                        part == SetPart(e.sql)
                    IN
                    /\ d >= 1
                    /\ Len(part) = 6 * d - 1
                    /\ \A j \in 1..d :
                        /\ part[6 * j - 5] = charL
                        /\ part[6 * j - 4] \in DOMAIN row
                        /\ part[6 * j - 3] = charR
                        /\ part[6 * j - 2] = "="
                        /\ part[6 * j - 1] = "?"
                        /\ j < d => part[6 * j] = ","
                        /\ \A k \in 1..d : part[6 * k - 4] = part[6 * j - 4] => k = j
                    /\ Len(e.args) = d + a
                    /\ \A j \in 1..d : e.args[j] = row[part[6 * j - 4]]
                    /\ \A j \in 1..a : e.args[d + j] = cond.args[j]
                    /\ CountTok(e.sql, "?") = d + a
                    /\ CountTok(e.sql, " WHERE ") = IF cond.where = <<>> THEN 0 ELSE 1
                    /\ cond.where # <<>> =>
                        SubSeq(e.sql, IndexOf(e.sql, " WHERE ") + 1, Len(e.sql)) = cond.where
           /\ (\/ (frame[p].data.kind = "map"
                     /\ Cardinality(DOMAIN frame[p].data.rows[1]) = 0)
               \/ (frame[p].data.kind = "string" /\ frame[p].data.s = <<>>))
                => (ret[p].err = ErrDataEmpty /\ Len(DriverCallsOf(p)) = 0)

\* C11 witness: an Update of a record of two columns under a condition with
\* two arguments reached the driver with four arguments.
C11_Witness ==
    \E p \in Procs :
        /\ pc[p] = "done" /\ frame[p].op = "doUpdate"
        /\ frame[p].data.kind = "map"
        /\ Cardinality(DOMAIN frame[p].data.rows[1]) = 2
        /\ Len(frame[p].cond.args) = 2
        /\ Len(CallsOf(p, "Exec")) = 1
        /\ Len(CallsOf(p, "Exec")[1].args) = 4

RECURSIVE ConcatArgs(_)
\* The arguments of the logged Execs es, one after the other.
ConcatArgs(es) == IF Len(es) = 0 THEN <<>> ELSE Head(es).args \o ConcatArgs(Tail(es))

\* C13: in a batch insert of m rows with effective chunk size c and the k
\* columns of the first row, the j-th Exec carries rows (j-1)c+1 .. min(jc, m)
\* and no others: c rows, or between 1 and c rows when it is the last chunk
\* of the batch; its statement has one value group per row and rows x k
\* placeholders and arguments, the values of these rows. While the loop runs
\* the pending groups and arguments are those of the rows since the last
\* Exec, fewer than c of them, so both are empty right after an Exec. A
\* batch that returned without error executed every row exactly once.
C13_ChunksPartitionBatch ==
    \A p \in Procs :
        InBatch(p) =>
            LET f == frame[p]
                m == Len(f.listMap)
                c == EffectiveChunk(f.batch)
                k == Cardinality(DOMAIN f.listMap[1])
                es == CallsOf(p, "Exec")
                n == Len(es)
            IN
            /\ Len(f.keys) = k
            /\ f.batchNum = c
            /\ \A j \in 1..n :
                LET rows == CountTok(es[j].sql, "(") - 1 IN
                /\ IsChunk(p, es[j], j)
                /\ rows >= 1 /\ rows <= c
                /\ (j < n \/ j * c < m) => rows = c
                /\ Len(es[j].args) = rows * k
                /\ CountTok(es[j].sql, "?") = rows * k
            /\ pc[p] = "batch" =>
                /\ n * c <= f.i /\ f.i < m
                /\ Len(f.values) = f.i - n * c
                /\ Len(f.values) < c
                /\ \A v \in 1..Len(f.values) : f.values[v] = ValueHolderStr(f.holders)
                /\ f.params = RowsParams(f.listMap, f.keys, n * c + 1, f.i)
                /\ (n >= 1 /\ f.i = n * c) => (f.values = <<>> /\ f.params = <<>>)
            /\ (pc[p] = "done" /\ ret[p].err = NoErr) =>
                /\ n = Ceil(m, c)
                /\ ConcatArgs(es) = RowsParams(f.listMap, f.keys, 1, m)

\* C13 witness: three rows of two columns in chunks of two were executed as a
\* chunk of two rows with four arguments and a last chunk of one row with two,
\* and the call returned without error.
C13_Witness ==
    \E p \in Procs :
        /\ InBatch(p) /\ pc[p] = "done" /\ ret[p].err = NoErr
        /\ Len(frame[p].listMap) = 3
        /\ frame[p].batch = <<2>>
        /\ Len(frame[p].keys) = 2
        /\ Len(CallsOf(p, "Exec")) = 2
        /\ Len(CallsOf(p, "Exec")[1].args) = 4
        /\ Len(CallsOf(p, "Exec")[2].args) = 2

\* C13 witness of the empty buffers: after the Exec of a full chunk the loop
\* goes on with no pending group and no pending argument.
C13_WitnessFlushed ==
    \E p \in Procs :
        /\ pc[p] = "batch"
        /\ Len(CallsOf(p, "Exec")) = 1
        /\ frame[p].i = 2
        /\ frame[p].values = <<>> /\ frame[p].params = <<>>

\* The outcome of caller p's batch insert is the one of the call alone: its
\* j-th Exec went to its own link with the statement and the values of chunk
\* j of its own list; the running total is the sum of what the driver
\* reported for its own Execs, the pending buffers hold its own rows since
\* its last Exec, and a call whose Execs all succeeded made ceil(m/c) of
\* them and returns that sum.
BatchOutcomeAlone(p) ==
    LET f == frame[p]
        m == Len(f.listMap)
        c == EffectiveChunk(f.batch)
        es == CallsOf(p, "Exec")
        n == Len(es)
    IN
    /\ \A j \in 1..n :
        /\ (j - 1) * c < m
        /\ es[j].link = f.useLink
        /\ es[j].sql = BatchStatement(getInsertOperationByOption(f.option),
                                      handleTableName(Table), KeysStr(f.keys),
                                      [v \in 1..ChunkLen(m, c, j) |-> ValueHolderStr(f.holders)],
                                      onDuplicateUpdate(f.option, f.keys))
        /\ es[j].args = RowsParams(f.listMap, f.keys,
                                   (j - 1) * c + 1, (j - 1) * c + ChunkLen(m, c, j))
    /\ pc[p] = "batch" =>
        /\ \A j \in 1..n : ExecSucceeded(es[j])
        /\ f.batchResult.rowsAffected = SumRows(es)
        /\ Len(f.values) = f.i - n * c
        /\ f.params = RowsParams(f.listMap, f.keys, n * c + 1, f.i)
    /\ (pc[p] = "done" /\ \A j \in 1..n : ExecSucceeded(es[j])) =>
        /\ n = Ceil(m, c)
        /\ ret[p] = [result |-> BatchResult(SumRows(es), es[n].out.result), err |-> NoErr]
    /\ (pc[p] = "done" /\ \E j \in 1..n : ~ExecSucceeded(es[j])) =>
        /\ ret[p].err # NoErr
        /\ ret[p].result = es[n].out.result

\* The outcome of caller p's query is the one of the call alone: one Query,
\* and the Records decoded so far hold the rows of its own cursor, in order.
QueryOutcomeAlone(p) ==
    /\ Len(CallsOf(p, "Query")) = 1
    /\ Len(CallsOf(p, "Exec")) = 0
    /\ \A i \in 1..Len(Decoded(p)) :
        /\ i <= Len(frame[p].cursor.rows)
        /\ RecordHoldsRow(Decoded(p)[i], frame[p].cursor.rows[i],
                          frame[p].cursor.cols, frame[p].values)
    /\ pc[p] = "rows" => Len(frame[p].records) = frame[p].pos - 1
    /\ (pc[p] = "done" /\ ret[p].err = NoErr) =>
        /\ Len(ret[p].result.list) = Len(frame[p].cursor.rows)
        /\ ret[p].result.isNil = (Len(frame[p].cursor.rows) = 0)

\* A step is the step of one caller: it leaves the position, the local
\* variables and the return values of every other caller as they are, and
\* the driver calls it adds are this caller's.
StepOfOneCaller ==
    \E p \in Procs :
        /\ \A q \in Procs \ {p} :
            pc'[q] = pc[q] /\ frame'[q] = frame[q] /\ ret'[q] = ret[q]
        /\ Len(driverLog') >= Len(driverLog)
        /\ SubSeq(driverLog', 1, Len(driverLog)) = driverLog
        /\ \A j \in (Len(driverLog) + 1)..Len(driverLog') : driverLog'[j].proc = p

\* C12: when the callers of Procs run batch inserts and queries on the same
\* database object and their steps and driver calls interleave in any order,
\* each caller's statements, arguments, number of chunks, total of
\* rows-affected and Records are those its call yields alone, and no step of
\* one caller changes the pending buffers, the total or the Records of another.
C12_CallersIndependent ==
    /\ [](\A p \in Procs :
            /\ InBatch(p) => BatchOutcomeAlone(p)
            /\ HasCursor(p) => QueryOutcomeAlone(p))
    /\ [][StepOfOneCaller]_vars

\* C12 witness: two batch inserts of different lists and chunk sizes ran with
\* their Execs interleaved (caller 1, caller 2, caller 1, caller 2), and
\* both returned without error.
C12_Witness ==
    /\ \A p \in Procs : InBatch(p) /\ pc[p] = "done" /\ ret[p].err = NoErr
    /\ Len(frame[1].listMap) = 3 /\ frame[1].batch = <<2>>
    /\ Len(frame[2].listMap) = 2 /\ frame[2].batch = <<1>>
    /\ Len(driverLog) = 4
    /\ \A j \in 1..4 : driverLog[j].proc = IF j \in {1, 3} THEN 1 ELSE 2

====
